---- MODULE Spec2Model ----
(***************************************************************************)
(* fetch_sql_model.py: a linear batch script.  It loads receipts.json,     *)
(* brands.json and users.json, flattens them into data frames, normalises  *)
(* the receipts frame, writes the three frames to data.db (SQLite) and     *)
(* runs a fixed sequence of queries.                                       *)
(*                                                                         *)
(* Encodings.                                                              *)
(*  - A JSON record is a function from the dotted leaf paths it holds (the *)
(*    column names pandas.json_normalize gives them) to values.  Every     *)
(*    value is a TLA+ record, so that any two can be compared: Null is a   *)
(*    JSON null, pandas NaN/None and SQL NULL alike.                       *)
(*  - An epoch-millisecond timestamp is a 64-bit integer in the program.   *)
(*    TLC's integers are 32 bits wide, so a timestamp t is kept as two     *)
(*    limbs [day |-> t floor-div 86400000, ms |-> t mod 86400000].         *)
(*  - A text value that the program parses, formats or searches            *)
(*    (totalSpent, the item-list serialisation, barcodes, 'YYYY-MM') is a  *)
(*    sequence of one-character strings.                                   *)
(***************************************************************************)
EXTENDS Integers, Sequences, FiniteSets, TLC

\* Longest receipts.json (number of records) the model draws.
MaxRecs == 2

Null == [null |-> TRUE]
NoTable == [none |-> TRUE]   \* a table name the database does not hold
Str(s) == [str |-> s]        \* a text the program only compares for equality
Txt(chars) == [txt |-> chars]  \* a text the program parses or searches
Num(n) == [n |-> n]
List(elems) == [list |-> elems]  \* a nested JSON array
Rows(set) == [rows |-> set]      \* the rows a query returns

----------------------------------------------------------------------------
(* Timestamps and SQLite's date arithmetic *)

Ts(d, m) == [day |-> d, ms |-> m]

\* 64-bit comparison a < b on the two limbs.
TsLess(a, b) == a.day < b.day \/ (a.day = b.day /\ a.ms < b.ms)

\* dateScanned < 0 (invalid_dates_query)
TsNegative(t) == t.day < 0

\* SQLite's integer division dateScanned / 1000: C division, which truncates
\* toward zero.  The result, a count of seconds, is kept as day and second
\* of day.
SqlDiv1000(t) ==
    LET fl == t.ms \div 1000
        up == t.day < 0 /\ t.ms % 1000 # 0
        s  == IF up THEN fl + 1 ELSE fl
    IN  IF s = 86400 THEN [day |-> t.day + 1, s |-> 0]
                     ELSE [day |-> t.day, s |-> s]

\* The proleptic Gregorian year and month of a day number counted from
\* 1970-01-01 (what SQLite's computeYMD yields for the 'unixepoch' modifier).
CivilFromDays(d) ==
    LET z   == d + 719468
        era == z \div 146097
        doe == z - era * 146097
        yoe == (doe - doe \div 1460 + doe \div 36524 - doe \div 146096) \div 365
        doy == doe - (365 * yoe + yoe \div 4 - yoe \div 100)
        mp  == (5 * doy + 2) \div 153
        m   == IF mp < 10 THEN mp + 3 ELSE mp - 9
        y   == yoe + era * 400 + (IF m <= 2 THEN 1 ELSE 0)
    IN  [y |-> y, m |-> m]

Digit(n) == CASE n = 0 -> "0" [] n = 1 -> "1" [] n = 2 -> "2" [] n = 3 -> "3"
              [] n = 4 -> "4" [] n = 5 -> "5" [] n = 6 -> "6" [] n = 7 -> "7"
              [] n = 8 -> "8" [] n = 9 -> "9"

\* '%Y-%m': four digits of year, a dash, two digits of month.
FormatYm(ym) ==
    << Digit(ym.y \div 1000), Digit((ym.y \div 100) % 10),
       Digit((ym.y \div 10) % 10), Digit(ym.y % 10), "-",
       Digit(ym.m \div 10), Digit(ym.m % 10) >>

\* STRFTIME('%Y-%m', secs, 'unixepoch'): NULL for NULL and for a date
\* SQLite's date functions do not accept (past 9999-12-31, or before julian
\* day 0).
Strftime(secs) ==
    IF secs = Null THEN Null
    ELSE IF secs.day > 2932896 \/ secs.day < -2440588 THEN Null
    ELSE Txt(FormatYm(CivilFromDays(secs.day)))

\* STRFTIME('%Y-%m', dateScanned / 1000, 'unixepoch')
RowMonth(date) == IF date = Null THEN Null ELSE Strftime(SqlDiv1000(date))

\* Character order of the texts the model compares (ASCII: '-' sorts before
\* the digits).
CharRank(c) == CASE c = "-" -> 0 [] c = "0" -> 1 [] c = "1" -> 2 [] c = "2" -> 3
                 [] c = "3" -> 4 [] c = "4" -> 5 [] c = "5" -> 6 [] c = "6" -> 7
                 [] c = "7" -> 8 [] c = "8" -> 9 [] c = "9" -> 10

\* SQLite's BINARY collation on two texts: a < b.
RECURSIVE TextLess(_, _)
TextLess(a, b) ==
    IF b = <<>> THEN FALSE
    ELSE IF a = <<>> THEN TRUE
    ELSE IF Head(a) # Head(b) THEN CharRank(Head(a)) < CharRank(Head(b))
    ELSE TextLess(Tail(a), Tail(b))

\* The aggregate MAX over a sequence of texts: NULLs are skipped, and the
\* result is NULL when nothing is left.
RECURSIVE SqlMaxText(_)
SqlMaxText(vals) ==
    IF vals = <<>> THEN Null
    ELSE LET rest == SqlMaxText(Tail(vals))
             v    == Head(vals)
         IN  IF v = Null THEN rest
             ELSE IF rest = Null THEN v
             ELSE IF TextLess(v.txt, rest.txt) THEN rest ELSE v

----------------------------------------------------------------------------
(* Data frames: loading and normalisation *)

KId == "_id.$oid"
KDateRaw == "dateScanned.$date"
KDate == "dateScanned"
KStatus == "rewardsReceiptStatus"
KSpend == "totalSpent"
KCount == "purchasedItemCount"
KItems == "rewardsReceiptItemList"

\* A data frame: its column names, its rows (each a function on the
\* columns) and the dtype of its date column ("none" without one).
Frame(cols, rows, dateDtype) == [cols |-> cols, rows |-> rows, dateDtype |-> dateDtype]

\* The dtype pandas infers for a column of numbers: int64 when every cell
\* holds an integer, float64 as soon as one cell is NaN among numbers, object
\* otherwise (nothing but None).
InferDtype(rows, c) ==
    IF rows # <<>> /\ \A i \in DOMAIN rows : rows[i][c] # Null THEN "int64"
    ELSE IF \E i \in DOMAIN rows : rows[i][c] # Null THEN "float64"
    ELSE "object"

\* pd.json_normalize(data): one row per record, one column per leaf path any
\* record holds, NaN where a record lacks the path.  An empty list gives a
\* frame with no rows and no columns.
JsonNormalize(data) ==
    LET cols == UNION {DOMAIN data[i] : i \in DOMAIN data}
        rows == [i \in DOMAIN data |->
                    [c \in cols |-> IF c \in DOMAIN data[i] THEN data[i][c] ELSE Null]]
    IN  Frame(cols, rows,
              IF KDateRaw \in cols THEN InferDtype(rows, KDateRaw) ELSE "none")

\* receipts_df["dateScanned"] = receipts_df["dateScanned.$date"], then
\* drop(columns=["dateScanned.$date"]); the frame is left alone (and a message
\* printed) when it has no such column.
RenameDate(df) ==
    IF KDateRaw \in df.cols
    THEN LET cols == (df.cols \ {KDateRaw}) \cup {KDate}
         IN  Frame(cols,
                   [i \in DOMAIN df.rows |->
                       [c \in cols |-> IF c = KDate THEN df.rows[i][KDateRaw]
                                       ELSE df.rows[i][c]]],
                   df.dateDtype)
    ELSE df

\* The rows whose dateScanned is not NaN, in order.
RECURSIVE RowsWithDate(_)
RowsWithDate(rows) ==
    IF rows = <<>> THEN <<>>
    ELSE IF Head(rows)[KDate] # Null THEN <<Head(rows)>> \o RowsWithDate(Tail(rows))
    ELSE RowsWithDate(Tail(rows))

\* df.dropna(subset=["dateScanned"]), evaluated only on a frame that has the
\* column (pandas raises KeyError otherwise).
DropNaDate(df) == Frame(df.cols, RowsWithDate(df.rows), df.dateDtype)

\* df["dateScanned"].astype(int): every cell becomes a 64-bit integer.
AstypeInt(df) == Frame(df.cols, df.rows, "int64")

\* str(v) as .astype(str) applies it to a cell: a list becomes its bracketed
\* text, a missing cell the text 'nan'.
RECURSIVE JoinElems(_)
JoinElems(elems) ==
    IF elems = <<>> THEN <<>>
    ELSE IF Len(elems) = 1 THEN <<"'">> \o Head(elems) \o <<"'">>
    ELSE <<"'">> \o Head(elems) \o <<"'", ",", " ">> \o JoinElems(Tail(elems))

PyStr(v) ==
    IF v = Null THEN Txt(<<"n", "a", "n">>)
    ELSE Txt(<<"[">> \o JoinElems(v.list) \o <<"]">>)

\* receipts_df["rewardsReceiptItemList"].astype(str), when the frame has the
\* column; otherwise the frame is left alone (and a message printed).
StringifyItems(df) ==
    IF KItems \in df.cols
    THEN Frame(df.cols,
               [i \in DOMAIN df.rows |->
                   [c \in df.cols |-> IF c = KItems THEN PyStr(df.rows[i][c])
                                      ELSE df.rows[i][c]]],
               df.dateDtype)
    ELSE df

----------------------------------------------------------------------------
(* The database *)

\* The SQL column type to_sql declares for a pandas dtype.
SqlType(dtype) ==
    CASE dtype = "int64" -> "INTEGER" [] dtype = "float64" -> "REAL"
      [] dtype = "none" -> "none" [] OTHER -> "TEXT"

\* A table: columns, declared type of the dateScanned column (if any), rows.
Table(cols, dateType, rows) == [cols |-> cols, dateType |-> dateType, rows |-> rows]

\* Variant of ToSql: if_exists="append", which keeps the table found and
\* adds the frame's rows to it.
ToSql_Append(old, df) ==
    IF old = NoTable THEN Table(df.cols, SqlType(df.dateDtype), df.rows)
    ELSE Table(old.cols \cup df.cols, old.dateType, old.rows \o df.rows)

\* df.to_sql(name, conn, if_exists="replace", index=False): whatever table
\* of that name the database held is dropped, and a new table is created
\* from the frame's columns and filled with the frame's rows.
ToSql(old, df) == Table(df.cols, SqlType(df.dateDtype), df.rows)

----------------------------------------------------------------------------
(* The queries.  Each is evaluated on tables that hold the columns it names; *)
(* SQLite rejects it ("no such column") otherwise, see the Needs sets.       *)

\* The aggregate MIN over a sequence of texts.
RECURSIVE SqlMinText(_)
SqlMinText(vals) ==
    IF vals = <<>> THEN Null
    ELSE LET rest == SqlMinText(Tail(vals))
             v    == Head(vals)
         IN  IF v = Null THEN rest
             ELSE IF rest = Null THEN v
             ELSE IF TextLess(v.txt, rest.txt) THEN v ELSE rest

\* query_recent_month:
\* SELECT MAX(STRFTIME('%Y-%m', dateScanned / 1000, 'unixepoch')) FROM receipts
RecentMonthNeeds == {KDate}
\* Variant of QueryRecentMonth: MIN where the script has MAX.
QueryRecentMonth_Min(receipts) ==
    SqlMinText([i \in DOMAIN receipts.rows |-> RowMonth(receipts.rows[i][KDate])])

QueryRecentMonth(receipts) ==
    SqlMaxText([i \in DOMAIN receipts.rows |-> RowMonth(receipts.rows[i][KDate])])

\* The text the f-string puts between the quotes of query_join for
\* latest_month: str(None) is 'None'.
FormatLiteral(v) == IF v = Null THEN Txt(<<"N", "o", "n", "e">>) ELSE v

\* text LIKE '%' || pat || '%': pat occurs in text; NULL (no match) when
\* either side is NULL.
Like(text, pat) ==
    /\ text # Null
    /\ pat # Null
    /\ \E i \in 1..(Len(text.txt) + 1) :
          /\ i + Len(pat.txt) - 1 <= Len(text.txt)
          /\ SubSeq(text.txt, i, i + Len(pat.txt) - 1) = pat.txt

\* query_join: receipts r JOIN brands b ON r.rewardsReceiptItemList LIKE
\* '%' || b.barcode || '%' WHERE STRFTIME(...) = '<literal>'.  The result is
\* the set of selected rows.
JoinNeedsReceipts == {KId, KDate, KSpend, KItems}
JoinNeedsBrands == {"name", "category", "barcode"}
QueryJoin(receipts, brands, literal) ==
  Rows(
    { [receipt_id |-> receipts.rows[i][KId],
       dateScanned |-> receipts.rows[i][KDate],
       totalSpent |-> receipts.rows[i][KSpend],
       brand_name |-> brands.rows[j]["name"],
       category |-> brands.rows[j]["category"]] :
      <<i, j>> \in { p \in (DOMAIN receipts.rows) \X (DOMAIN brands.rows) :
                       /\ Like(receipts.rows[p[1]][KItems], brands.rows[p[2]]["barcode"])
                       /\ RowMonth(receipts.rows[p[1]][KDate]) = literal } })

DigitVal(c) == CASE c = "0" -> 0 [] c = "1" -> 1 [] c = "2" -> 2 [] c = "3" -> 3
                 [] c = "4" -> 4 [] c = "5" -> 5 [] c = "6" -> 6 [] c = "7" -> 7
                 [] c = "8" -> 8 [] c = "9" -> 9 [] OTHER -> -1

\* The leading run of digits of chars as a number, and what follows it.
RECURSIVE ParseDigits(_, _)
ParseDigits(chars, acc) ==
    IF chars = <<>> \/ DigitVal(Head(chars)) < 0 THEN [v |-> acc, rest |-> chars]
    ELSE ParseDigits(Tail(chars), acc * 10 + DigitVal(Head(chars)))

\* CAST(text AS FLOAT): the longest numeric prefix of the text, 0.0 when there
\* is none.  The value is kept in hundredths (the amounts carry two decimals).
CastFloat(v) ==
    IF v = Null THEN Null
    ELSE LET ip == ParseDigits(v.txt, 0)
             fr == IF ip.rest # <<>> /\ Head(ip.rest) = "."
                   THEN Tail(ip.rest) ELSE <<>>
             d1 == IF Len(fr) >= 1 /\ DigitVal(fr[1]) >= 0 THEN DigitVal(fr[1]) ELSE 0
             d2 == IF Len(fr) >= 2 /\ DigitVal(fr[1]) >= 0 /\ DigitVal(fr[2]) >= 0
                   THEN DigitVal(fr[2]) ELSE 0
         IN  Num(ip.v * 100 + d1 * 10 + d2)

\* NULLIF(a, b): NULL when a = b, else a.
NullIf(a, b) == IF a = b THEN Null ELSE a

\* The sum of the non-NULL numbers among vals[i], i in idx.
RECURSIVE SumOver(_, _)
SumOver(vals, idx) ==
    IF idx = {} THEN 0
    ELSE LET i == CHOOSE k \in idx : TRUE
         IN  (IF vals[i] = Null THEN 0 ELSE vals[i].n) + SumOver(vals, idx \ {i})

NonNull(vals, idx) == {i \in idx : vals[i] # Null}

\* AVG over vals[i], i in idx: the sum of the non-NULL values over their
\* number, kept as a fraction of hundredths; NULL when all are NULL.
SqlAvg(vals, idx) ==
    IF NonNull(vals, idx) = {} THEN Null
    ELSE [num |-> SumOver(vals, idx), den |-> 100 * Cardinality(NonNull(vals, idx))]

\* SUM over vals[i], i in idx: NULL when all are NULL.
SqlSum(vals, idx) ==
    IF NonNull(vals, idx) = {} THEN Null ELSE Num(SumOver(vals, idx))

Finished == Str("FINISHED")
Rejected == Str("REJECTED")
\* rewardsReceiptStatus IN ('FINISHED', 'REJECTED')
StatusIn == {Finished, Rejected}

\* avg_spend_amnt_query: the rows WHERE keeps, grouped by status; one result
\* row per group.
AvgSpendNeeds == {KStatus, KSpend}
\* Variant of AvgSpendWhere: without the condition totalSpent != ''.
AvgSpendWhere_KeepsEmpty(r) ==
    /\ r[KStatus] \in StatusIn
    /\ r[KSpend] # Null

AvgSpendWhere(r) ==
    /\ r[KStatus] \in StatusIn
    /\ r[KSpend] # Null
    /\ r[KSpend] # Txt(<<>>)
AvgSpendQuery(receipts) ==
    LET rows == receipts.rows
        kept == {i \in DOMAIN rows : AvgSpendWhere(rows[i])}
        vals == [i \in DOMAIN rows |-> CastFloat(NullIf(rows[i][KSpend], Txt(<<>>)))]
    IN  Rows({ [status |-> s,
                 average_spend |-> SqlAvg(vals, {i \in kept : rows[i][KStatus] = s})] :
               s \in {rows[i][KStatus] : i \in kept} })

\* total_items_purchased_query
TotalItemsNeeds == {KStatus, KCount}
TotalItemsWhere(r) ==
    /\ r[KStatus] \in StatusIn
    /\ r[KCount] # Null
TotalItemsQuery(receipts) ==
    LET rows == receipts.rows
        kept == {i \in DOMAIN rows : TotalItemsWhere(rows[i])}
        vals == [i \in DOMAIN rows |-> NullIf(rows[i][KCount], Num(0))]
    IN  Rows({ [status |-> s,
                 total_items_purchased |->
                     SqlSum(vals, {i \in kept : rows[i][KStatus] = s})] :
               s \in {rows[i][KStatus] : i \in kept} })

\* missing_val_query
MissingValNeeds == {KSpend, KDate, KStatus}
MissingValQuery(receipts) ==
    LET rows == receipts.rows
    IN  [missing_totalSpent |->
            Cardinality({i \in DOMAIN rows : rows[i][KSpend] \in {Null, Txt(<<>>)}}),
         missing_dateScanned |->
            Cardinality({i \in DOMAIN rows : rows[i][KDate] = Null}),
         missing_status |->
            Cardinality({i \in DOMAIN rows : rows[i][KStatus] \in {Null, Str("")}})]

\* '_id.$oid' where SQL takes an expression: a single-quoted token is a string
\* literal there, the same text for every row.
IdLiteral(r) == Str(KId)

\* duplicate_query: SELECT '_id.$oid', COUNT(*) FROM receipts
\* GROUP BY '_id.$oid' HAVING COUNT(*) > 1
DuplicateQuery(receipts) ==
    LET rows == receipts.rows
        Group(k) == {i \in DOMAIN rows : IdLiteral(rows[i]) = k}
    IN  Rows({ [id |-> k, count |-> Cardinality(Group(k))] :
               k \in {g \in {IdLiteral(rows[i]) : i \in DOMAIN rows} :
                         Cardinality(Group(g)) > 1} })

\* invalid_dates_query
InvalidDatesNeeds == {KDate}
InvalidDatesQuery(receipts) ==
    LET rows == receipts.rows
    IN  Rows({ [id |-> IdLiteral(rows[i]), dateScanned |-> rows[i][KDate]] :
               i \in {k \in DOMAIN rows :
                         rows[k][KDate] = Null \/ TsNegative(rows[k][KDate])} })

----------------------------------------------------------------------------
(* Inputs: the files the script may find *)

\* A key a JSON record does not hold (used only to build records).
Absent == [absent |-> TRUE]

\* The JSON record with the given leaf values, without the Absent ones.
Record(fields) == [k \in {c \in DOMAIN fields : fields[c] # Absent} |-> fields[k]]

Receipt(id, date, status, spend, count, items) ==
    Record([c \in {KId, KDateRaw, KStatus, KSpend, KCount, KItems} |->
              CASE c = KId -> id [] c = KDateRaw -> date [] c = KStatus -> status
                [] c = KSpend -> spend [] c = KCount -> count [] c = KItems -> items])

\* Scan timestamps: 2021-01-03T15:25:31Z, the last millisecond of January
\* 2021, the first of February 2021, half a second before the epoch, and
\* the first millisecond of the year 10000.
TJan == Ts(18630, 55531000)
TJanEnd == Ts(18658, 86399999)
TFeb == Ts(18659, 0)
TBeforeEpoch == Ts(-1, 86399500)
TYear10000 == Ts(2932897, 0)

Barcode1 == <<"4", "0", "1", "1">>
Barcode2 == <<"5", "1", "0", "0">>
Spend10 == Txt(<<"1", "0", ".", "0", "0">>)
Spend25 == Txt(<<"2", "5", ".", "5", "0">>)
Flagged == Str("FLAGGED")

\* Receipts that differ from one reference receipt in one group of fields.
VaryDate ==
    { Receipt(Str("r1"), d, Finished, Spend10, Num(2), List(<<Barcode1>>)) :
      d \in {Absent, Null, TJan, TJanEnd, TFeb, TBeforeEpoch, TYear10000} }
VaryId ==
    { Receipt(Str(i), TJan, Finished, Spend10, Num(2), List(b)) :
      i \in {"r1", "r2"}, b \in {<<Barcode1>>, <<>>} }
VarySpend ==
    { Receipt(Str("r1"), TJan, s, p, Num(2), List(<<Barcode1>>)) :
      s \in {Finished, Rejected, Flagged}, p \in {Null, Txt(<<>>), Spend10, Spend25} }
VaryCount ==
    { Receipt(Str("r1"), TJan, s, Spend10, c, List(<<Barcode1>>)) :
      s \in {Finished, Rejected, Flagged}, c \in {Null, Num(0), Num(2)} }
VaryKeys ==
    { Receipt(Str("r1"), TJan, Finished, Spend10, Num(2), List(<<Barcode1>>)),
      Receipt(Absent, TJan, Finished, Spend10, Num(2), List(<<Barcode1>>)),
      Receipt(Str("r1"), TJan, Absent, Spend10, Num(2), List(<<Barcode1>>)),
      Receipt(Str("r1"), TJan, Finished, Absent, Num(2), List(<<Barcode1>>)),
      Receipt(Str("r1"), TJan, Finished, Spend10, Absent, List(<<Barcode1>>)),
      Receipt(Str("r1"), TJan, Finished, Spend10, Num(2), Absent) }

SeqsUpTo(S, n) == UNION {[1..k -> S] : k \in 0..n}

\* The contents receipts.json may have.
ReceiptsInputs ==
    UNION {SeqsUpTo(S, MaxRecs) : S \in {VaryDate, VaryId, VarySpend, VaryCount, VaryKeys}}

BrandsInput ==
    << [barcode |-> Txt(Barcode1), name |-> Str("brand1"), category |-> Str("Snacks")],
       [barcode |-> Txt(Barcode2), name |-> Str("brand2"), category |-> Str("Dairy")] >>

UsersInput == << [c \in {KId, "state"} |-> IF c = KId THEN Str("u1") ELSE Str("WI")] >>

\* A file on disk, or its absence.
File(data) == [present |-> TRUE, data |-> data]
NoFile == [present |-> FALSE, data |-> <<>>]

\* What data.db may hold before a run: nothing, or tables of an earlier run
\* over other files.
EmptyStore == [receipts |-> NoTable, brands |-> NoTable, users |-> NoTable]
StaleStore ==
    [receipts |-> Table({KId, KDate, "legacy"}, "REAL",
                        << [c \in {KId, KDate, "legacy"} |->
                              CASE c = KId -> Str("r0") [] c = KDate -> TJan
                                [] OTHER -> Str("x")] >>),
     brands |-> Table({"barcode", "legacy"}, "none",
                      << [c \in {"barcode", "legacy"} |-> Str("x")] >>),
     users |-> Table({"legacy"}, "none", << [c \in {"legacy"} |-> Str("x")] >>)]

----------------------------------------------------------------------------
(* The script as a state machine *)

VARIABLES
    files,          \* receipts.json, brands.json, users.json on disk
    store,          \* the tables of data.db
    prior,          \* the tables of data.db when the run started
    conn,           \* "none" (not opened), "open", "closed"
    pc,             \* the statement the run is at, or how it ended
    receipts_df, brands_df, users_df,
    latest_month,   \* line 68
    join_literal,   \* the text interpolated into query_join
    result_df,      \* line 91
    avg_result,     \* line 131
    items_result,   \* line 155
    missing_result, \* line 177
    duplicates,     \* line 190
    invalid_dates,  \* line 202
    attempted,      \* the steps the run has started, in order
    logged          \* the error and warning messages printed

vars == << files, store, prior, conn, pc, receipts_df, brands_df, users_df,
           latest_month, join_literal, result_df, avg_result, items_result,
           missing_result, duplicates, invalid_dates, attempted, logged >>

frames == << receipts_df, brands_df, users_df >>
results == << latest_month, join_literal, result_df, avg_result, items_result,
              missing_result, duplicates, invalid_dates >>

\* A name that has not been assigned.
Unset == [unset |-> TRUE]

\* How a run ends: exit() called, an uncaught exception, or the last line.
Terminal == {"exited", "crashed", "done"}

StartOfRun ==
    /\ conn = "none"
    /\ pc = "load"
    /\ receipts_df = Unset /\ brands_df = Unset /\ users_df = Unset
    /\ latest_month = Unset /\ join_literal = Unset /\ result_df = Unset
    /\ avg_result = Unset /\ items_result = Unset /\ missing_result = Unset
    /\ duplicates = Unset /\ invalid_dates = Unset
    /\ attempted = <<>>
    /\ logged = {}

Init ==
    /\ files \in [receipts : {NoFile} \cup {File(d) : d \in ReceiptsInputs},
                  brands : {NoFile, File(BrandsInput)},
                  users : {NoFile, File(UsersInput)}]
    /\ store \in {EmptyStore, StaleStore}
    /\ prior = store
    /\ StartOfRun

\* Variant of FilesFound: only receipts.json is looked for.
FilesFound_ReceiptsOnly(f) == f.receipts.present

\* The three open() calls succeed (no FileNotFoundError).
FilesFound(f) == f.receipts.present /\ f.brands.present /\ f.users.present

\* Lines 7-20: open and parse the three files; exit() when one is missing.
Load ==
    /\ pc = "load"
    /\ attempted' = Append(attempted, "load")
    /\ IF FilesFound(files)
       THEN pc' = "normalize" /\ logged' = logged
       ELSE pc' = "exited" /\ logged' = logged \cup {"Error loading files"}
    /\ UNCHANGED << files, store, prior, conn, frames, results >>

\* Line 40 finds the column it is told to look at (no KeyError).
DateColumnFound(df) == KDate \in df.cols

\* Lines 33-49 on the flattened receipts, when line 40 finds its column.
NormalizeReceipts(df) == StringifyItems(AstypeInt(DropNaDate(RenameDate(df))))

\* The messages lines 37 and 49 print.
NormalizeMessages(df) ==
    (IF KDateRaw \in df.cols THEN {} ELSE {"Column 'dateScanned.$date' not found"})
    \cup (IF KItems \in df.cols THEN {} ELSE {"Column 'rewardsReceiptItemList' not found"})

\* Lines 22-49: flatten the three documents and normalise the receipts.
\* dropna raises KeyError, which nothing catches, when the frame has no
\* dateScanned column; the item-list message is then never reached.
Normalize ==
    /\ pc = "normalize"
    /\ attempted' = Append(attempted, "normalize")
    /\ brands_df' = JsonNormalize(files.brands.data)
    /\ users_df' = JsonNormalize(files.users.data)
    /\ LET raw == JsonNormalize(files.receipts.data)
       IN  IF DateColumnFound(RenameDate(raw))
           THEN /\ receipts_df' = NormalizeReceipts(raw)
                /\ logged' = logged \cup NormalizeMessages(raw)
                /\ pc' = "connect"
           ELSE /\ receipts_df' = RenameDate(raw)
                /\ logged' = logged \cup {"Column 'dateScanned.$date' not found"}
                /\ pc' = "crashed"
    /\ UNCHANGED << files, store, prior, conn, results >>

\* Line 53
Connect ==
    /\ pc = "connect"
    /\ attempted' = Append(attempted, "connect")
    /\ conn' = "open"
    /\ pc' = "to_sql_receipts"
    /\ UNCHANGED << files, store, prior, frames, results, logged >>

\* Line 54
ToSqlReceipts ==
    /\ pc = "to_sql_receipts"
    /\ attempted' = Append(attempted, "to_sql_receipts")
    /\ store' = [store EXCEPT !.receipts = ToSql(@, receipts_df)]
    /\ pc' = "to_sql_brands"
    /\ UNCHANGED << files, prior, conn, frames, results, logged >>

\* Line 55
ToSqlBrands ==
    /\ pc = "to_sql_brands"
    /\ attempted' = Append(attempted, "to_sql_brands")
    /\ store' = [store EXCEPT !.brands = ToSql(@, brands_df)]
    /\ pc' = "to_sql_users"
    /\ UNCHANGED << files, prior, conn, frames, results, logged >>

\* Lines 56-57
ToSqlUsers ==
    /\ pc = "to_sql_users"
    /\ attempted' = Append(attempted, "to_sql_users")
    /\ store' = [store EXCEPT !.users = ToSql(@, users_df)]
    /\ pc' = "recent_month"
    /\ UNCHANGED << files, prior, conn, frames, results, logged >>

\* A query runs: the database raises no error of its own (dbError: locked
\* or unreadable file, I/O failure) and the table holds the columns named.
Runs(dbError, table, needs) == ~dbError /\ table # NoTable /\ needs \subseteq table.cols
\* Lines 60-73: the most recent month; on an exception the connection is
\* closed and the script exits.
RecentMonth ==
    /\ pc = "recent_month"
    /\ attempted' = Append(attempted, "recent_month")
    /\ \E dbError \in BOOLEAN :
          IF Runs(dbError, store.receipts, RecentMonthNeeds)
          THEN /\ latest_month' = QueryRecentMonth(store.receipts)
               /\ pc' = "join"
               /\ UNCHANGED << conn, logged >>
          ELSE /\ logged' = logged \cup {"Error running query"}
               /\ conn' = "closed"
               /\ pc' = "exited"
               /\ UNCHANGED latest_month
    /\ UNCHANGED << files, store, prior, frames, join_literal, result_df, avg_result,
                    items_result, missing_result, duplicates, invalid_dates >>

\* Variant of Join: the except branch prints the error and neither closes the
\* connection nor exits.
Join_ContinuesAfterError ==
    /\ pc = "join"
    /\ attempted' = Append(attempted, "join")
    /\ join_literal' = FormatLiteral(latest_month)
    /\ \E dbError \in BOOLEAN :
          IF /\ Runs(dbError, store.receipts, JoinNeedsReceipts)
             /\ Runs(dbError, store.brands, JoinNeedsBrands)
          THEN /\ result_df' = QueryJoin(store.receipts, store.brands,
                                         FormatLiteral(latest_month))
               /\ UNCHANGED logged
          ELSE /\ logged' = logged \cup {"Error executing join query"}
               /\ UNCHANGED result_df
    /\ pc' = "avg_spend"
    /\ UNCHANGED << files, store, prior, conn, frames, latest_month, avg_result,
                    items_result, missing_result, duplicates, invalid_dates >>

\* Lines 76-96: the join, filtered to the most recent month; on an exception
\* the connection is closed and the script exits.
Join ==
    /\ pc = "join"
    /\ attempted' = Append(attempted, "join")
    /\ join_literal' = FormatLiteral(latest_month)
    /\ \E dbError \in BOOLEAN :
          IF /\ Runs(dbError, store.receipts, JoinNeedsReceipts)
             /\ Runs(dbError, store.brands, JoinNeedsBrands)
          THEN /\ result_df' = QueryJoin(store.receipts, store.brands,
                                         FormatLiteral(latest_month))
               /\ pc' = "avg_spend"
               /\ UNCHANGED << conn, logged >>
          ELSE /\ logged' = logged \cup {"Error executing join query"}
               /\ conn' = "closed"
               /\ pc' = "exited"
               /\ UNCHANGED result_df
    /\ UNCHANGED << files, store, prior, frames, latest_month, avg_result,
                    items_result, missing_result, duplicates, invalid_dates >>

\* Variant of AvgSpend: without the try/except, an exception ends the run.
AvgSpend_Fatal ==
    /\ pc = "avg_spend"
    /\ attempted' = Append(attempted, "avg_spend")
    /\ \E dbError \in BOOLEAN :
          IF Runs(dbError, store.receipts, AvgSpendNeeds)
          THEN /\ avg_result' = AvgSpendQuery(store.receipts)
               /\ pc' = "total_items"
          ELSE /\ pc' = "crashed"
               /\ UNCHANGED avg_result
    /\ UNCHANGED << files, store, prior, conn, frames, latest_month, join_literal,
                    result_df, items_result, missing_result, duplicates,
                    invalid_dates, logged >>

\* Line 135 formats every average with :.2f, which raises TypeError on None.
AvgPrints(result) == \A r \in result.rows : r.average_spend # Null

\* Lines 118-137: average spend by status; an exception is printed and the
\* script goes on.
AvgSpend ==
    /\ pc = "avg_spend"
    /\ attempted' = Append(attempted, "avg_spend")
    /\ \E dbError \in BOOLEAN :
          IF Runs(dbError, store.receipts, AvgSpendNeeds)
          THEN /\ avg_result' = AvgSpendQuery(store.receipts)
               /\ logged' = IF AvgPrints(AvgSpendQuery(store.receipts)) THEN logged
                            ELSE logged \cup {"Error executing query (average spend)"}
          ELSE /\ logged' = logged \cup {"Error executing query (average spend)"}
               /\ UNCHANGED avg_result
    /\ pc' = "total_items"
    /\ UNCHANGED << files, store, prior, conn, frames, latest_month, join_literal,
                    result_df, items_result, missing_result, duplicates, invalid_dates >>

\* Lines 143-161: total items by status; an exception is printed and the
\* script goes on.
TotalItems ==
    /\ pc = "total_items"
    /\ attempted' = Append(attempted, "total_items")
    /\ \E dbError \in BOOLEAN :
          IF Runs(dbError, store.receipts, TotalItemsNeeds)
          THEN /\ items_result' = TotalItemsQuery(store.receipts)
               /\ UNCHANGED logged
          ELSE /\ logged' = logged \cup {"Error executing query (total items)"}
               /\ UNCHANGED items_result
    /\ pc' = "missing_values"
    /\ UNCHANGED << files, store, prior, conn, frames, latest_month, join_literal,
                    result_df, avg_result, missing_result, duplicates, invalid_dates >>

\* Lines 169-179: the missing-values check; nothing catches an exception.
MissingValues ==
    /\ pc = "missing_values"
    /\ attempted' = Append(attempted, "missing_values")
    /\ \E dbError \in BOOLEAN :
          IF Runs(dbError, store.receipts, MissingValNeeds)
          THEN /\ missing_result' = MissingValQuery(store.receipts)
               /\ pc' = "duplicates"
          ELSE /\ pc' = "crashed"
               /\ UNCHANGED missing_result
    /\ UNCHANGED << files, store, prior, conn, frames, latest_month, join_literal,
                    result_df, avg_result, items_result, duplicates, invalid_dates,
                    logged >>

\* Lines 183-192: the duplicate check; nothing catches an exception.
Duplicates ==
    /\ pc = "duplicates"
    /\ attempted' = Append(attempted, "duplicates")
    /\ \E dbError \in BOOLEAN :
          IF Runs(dbError, store.receipts, {})
          THEN /\ duplicates' = DuplicateQuery(store.receipts)
               /\ pc' = "invalid_dates"
          ELSE /\ pc' = "crashed"
               /\ UNCHANGED duplicates
    /\ UNCHANGED << files, store, prior, conn, frames, latest_month, join_literal,
                    result_df, avg_result, items_result, missing_result,
                    invalid_dates, logged >>

\* Lines 196-204: the invalid-dates check, the last statement of the script;
\* nothing catches an exception.
InvalidDates ==
    /\ pc = "invalid_dates"
    /\ attempted' = Append(attempted, "invalid_dates")
    /\ \E dbError \in BOOLEAN :
          IF Runs(dbError, store.receipts, InvalidDatesNeeds)
          THEN /\ invalid_dates' = InvalidDatesQuery(store.receipts)
               /\ pc' = "done"
          ELSE /\ pc' = "crashed"
               /\ UNCHANGED invalid_dates
    /\ UNCHANGED << files, store, prior, conn, frames, latest_month, join_literal,
                    result_df, avg_result, items_result, missing_result,
                    duplicates, logged >>

\* The script is started again over the same files and the same data.db.
Rerun ==
    /\ pc \in Terminal
    /\ prior' = store
    /\ conn' = "none"
    /\ pc' = "load"
    /\ receipts_df' = Unset /\ brands_df' = Unset /\ users_df' = Unset
    /\ latest_month' = Unset /\ join_literal' = Unset /\ result_df' = Unset
    /\ avg_result' = Unset /\ items_result' = Unset /\ missing_result' = Unset
    /\ duplicates' = Unset /\ invalid_dates' = Unset
    /\ attempted' = <<>>
    /\ logged' = {}
    /\ UNCHANGED << files, store >>

Next ==
    \/ Load
    \/ Normalize
    \/ Connect
    \/ ToSqlReceipts
    \/ ToSqlBrands
    \/ ToSqlUsers
    \/ RecentMonth
    \/ Join
    \/ AvgSpend
    \/ TotalItems
    \/ MissingValues
    \/ Duplicates
    \/ InvalidDates
    \/ Rerun

Spec == Init /\ [][Next]_vars
----------------------------------------------------------------------------
(* Properties *)

Range(seq) == {seq[i] : i \in DOMAIN seq}

AllFilesPresent ==
    files.receipts.present /\ files.brands.present /\ files.users.present

\* The records of receipts.json and those with a present (non-null) date.
InputReceipts == files.receipts.data
HasDateField(r) == KDateRaw \in DOMAIN r /\ r[KDateRaw] # Null
RecordsWithDate == {i \in DOMAIN InputReceipts : HasDateField(InputReceipts[i])}

\* The three to_sql calls of this run have returned.
Persisted == "to_sql_users" \in Range(attempted)

\* C1: for every receipts.json of N records of which M (0 <= M <= N) have a
\* present date field, a run that loads all three files ends with a receipts
\* table, written by that run, of exactly M rows whose dateScanned column is
\* integer-typed.
C1_PersistedRowCount ==
    (pc \in Terminal /\ AllFilesPresent) =>
        /\ Persisted
        /\ Len(store.receipts.rows) = Cardinality(RecordsWithDate)
        /\ store.receipts.dateType = "INTEGER"

\* C2: when one of the three files is absent, the run never opens the
\* connection, never gets past loading, and leaves every table of the store
\* as it was when the run started.
C2_MissingFileLeavesStore ==
    ~AllFilesPresent =>
        /\ conn = "none"
        /\ pc \in {"load", "exited"}
        /\ store = prior
        /\ receipts_df = Unset

C2_Witness ==
    /\ pc = "exited"
    /\ files.receipts.present
    /\ ~files.brands.present
    /\ store = StaleStore
    /\ "Error loading files" \in logged

\* C3: the duplicate-id query returns nothing when all '_id.$oid' values of
\* the receipts table are distinct, and every row it returns names an
\* identifier that occurs more than once, with its number of occurrences.
C3_DuplicatesOnlyRepeatedIds ==
    duplicates # Unset =>
        LET rows == store.receipts.rows
            Occurrences(v) == {i \in DOMAIN rows : rows[i][KId] = v}
        IN  /\ (\A i, j \in DOMAIN rows : i # j => rows[i][KId] # rows[j][KId])
                  => duplicates.rows = {}
            /\ \A d \in duplicates.rows :
                  /\ Cardinality(Occurrences(d.id)) > 1
                  /\ d.count = Cardinality(Occurrences(d.id))

\* C4: the total-items step reports, for each of FINISHED and REJECTED that
\* occurs in the receipts table, the sum of purchasedItemCount over the rows
\* of that status, a null or zero count adding zero (so that a status whose
\* counts are all zero is reported with total 0).
C4_TotalItemsByStatus ==
    items_result # Unset =>
        LET rows == store.receipts.rows
            counts == [i \in DOMAIN rows |-> rows[i][KCount]]
        IN  \A s \in StatusIn :
               LET of == {i \in DOMAIN rows : rows[i][KStatus] = s}
               IN  of # {} =>
                     \E r \in items_result.rows :
                        /\ r.status = s
                        /\ r.total_items_purchased = Num(SumOver(counts, of))

\* The year and month a 'YYYY-MM' text names.
ParseYm(t) ==
    [y |-> ParseDigits(SubSeq(t.txt, 1, 4), 0).v,
     m |-> ParseDigits(SubSeq(t.txt, 6, 7), 0).v]

\* The largest dateScanned of the receipts table.
LargestScan ==
    LET dates == {store.receipts.rows[i][KDate] : i \in DOMAIN store.receipts.rows}
    IN  CHOOSE t \in dates : \A u \in dates : ~TsLess(t, u)

\* The month step has returned on a receipts table that has rows.
MonthComputed == latest_month # Unset /\ store.receipts.rows # <<>>

\* The month is the calendar (UTC) year and month of the largest dateScanned,
\* and the join, once reached, filters on that very text.
MonthIsThatOfLargestScan ==
    /\ latest_month # Null
    /\ ParseYm(latest_month) = CivilFromDays(LargestScan.day)
    /\ join_literal # Unset => join_literal = latest_month
    /\ result_df # Unset =>
          \A r \in result_df.rows : CivilFromDays(r.dateScanned.day) = ParseYm(latest_month)

\* C5 as stated: for every non-empty receipts table the most recent month is
\* the year-month of the row with the largest dateScanned, and it is the
\* month filter of the join.
C5_RecentMonthOfAnyTable == MonthComputed => MonthIsThatOfLargestScan

\* dateScanned lies between 1970-01-01T00:00:00.000Z and
\* 9999-12-31T23:59:59.999Z.
ScanInRange(t) == t.day >= 0 /\ t.day <= 2932896

\* C5, amended: the same, for every non-empty receipts table whose
\* dateScanned values all lie between the epoch and the end of the year 9999.
C5_RecentMonthInRange ==
    (/\ MonthComputed
     /\ \A i \in DOMAIN store.receipts.rows : ScanInRange(store.receipts.rows[i][KDate]))
        => MonthIsThatOfLargestScan

C5_Witness ==
    /\ result_df # Unset
    /\ result_df.rows # {}
    /\ Len(store.receipts.rows) = 2
    /\ store.receipts.rows[1][KDate] = TFeb
    /\ store.receipts.rows[2][KDate] = TJanEnd
    /\ latest_month = Txt(<<"2", "0", "2", "1", "-", "0", "2">>)

\* C6: the average-spend step reports, for each of FINISHED and REJECTED, the
\* mean of totalSpent over the rows of that status whose totalSpent is
\* neither null nor empty (their sum over their number); it reports each such
\* status once, and no status without such a row, and no other status.
C6_AverageSpendByStatus ==
    avg_result # Unset =>
        LET rows == store.receipts.rows
            spend == [i \in DOMAIN rows |-> CastFloat(rows[i][KSpend])]
        IN  /\ \A r \in avg_result.rows : r.status \in {Finished, Rejected}
            /\ \A s \in {Finished, Rejected} :
                  LET q == {i \in DOMAIN rows :
                              /\ rows[i][KStatus] = s
                              /\ rows[i][KSpend] # Null
                              /\ rows[i][KSpend] # Txt(<<>>)}
                      reported == {r \in avg_result.rows : r.status = s}
                  IN  IF q = {} THEN reported = {}
                      ELSE /\ Cardinality(reported) = 1
                           /\ \A r \in reported :
                                 /\ r.average_spend # Null
                                 /\ r.average_spend.num * 100 * Cardinality(q)
                                      = SumOver(spend, q) * r.average_spend.den

C6_Witness ==
    /\ avg_result = Rows({[status |-> Finished,
                            average_spend |-> [num |-> 2550, den |-> 100]]})
    /\ Len(store.receipts.rows) = 2
    /\ store.receipts.rows[1][KSpend] = Txt(<<>>)
    /\ store.receipts.rows[1][KStatus] = Finished
    /\ store.receipts.rows[2][KStatus] = Finished

\* The flattened receipts have no 'dateScanned.$date' column, or no
\* 'rewardsReceiptItemList' column.
NoDateColumn == \A i \in DOMAIN InputReceipts : KDateRaw \notin DOMAIN InputReceipts[i]
NoItemsColumn == \A i \in DOMAIN InputReceipts : KItems \notin DOMAIN InputReceipts[i]

\* C7: a missing 'dateScanned.$date' or 'rewardsReceiptItemList' column is
\* not fatal: the run prints a message and goes on to write the tables and
\* to the steps after that.
C7_MissingColumnNotFatal ==
    (pc \in Terminal /\ AllFilesPresent /\ (NoDateColumn \/ NoItemsColumn)) =>
        /\ logged # {}
        /\ Persisted
        /\ "recent_month" \in Range(attempted)

\* C8: once the three tables are written, each holds exactly the columns and
\* rows derived from the current files, whatever the store held when the run
\* started (nothing, tables of other data, or the tables of an earlier run
\* over the same files).
C8_TablesReplaced ==
    Persisted =>
        LET r == NormalizeReceipts(JsonNormalize(files.receipts.data))
            b == JsonNormalize(files.brands.data)
            u == JsonNormalize(files.users.data)
        IN  /\ store.receipts.cols = r.cols /\ store.receipts.rows = r.rows
            /\ store.brands.cols = b.cols /\ store.brands.rows = b.rows
            /\ store.users.cols = u.cols /\ store.users.rows = u.rows
            /\ Len(store.receipts.rows) = Cardinality(RecordsWithDate)

C8_Witness ==
    /\ Persisted
    /\ prior = store
    /\ Len(store.receipts.rows) = 2

\* The steps the run has started after the join.
AfterJoin ==
    LET at == CHOOSE i \in DOMAIN attempted : attempted[i] = "join"
    IN  SubSeq(attempted, at + 1, Len(attempted))

ReportSteps ==
    << "avg_spend", "total_items", "missing_values", "duplicates", "invalid_dates" >>

\* The run has ended after a join that succeeded.
EndedAfterJoin == pc \in Terminal /\ result_df # Unset

\* C9 as stated: in every run that passes the join, all five later steps are
\* attempted, in order, whichever of them fail.
C9_AllFiveAttempted == EndedAfterJoin => AfterJoin = ReportSteps

\* C9, amended: in every run that passes the join, the average-spend, the
\* total-items and the missing-values steps are attempted in that order,
\* whichever of the first two fail, and a failure of those two is printed.
\* A failure of the missing-values, duplicate or invalid-dates check is not
\* caught and ends the run: the duplicate check is attempted exactly when the
\* missing-values check succeeded, the invalid-dates check exactly when the
\* duplicate check succeeded.
C9_SpendAndItemsFailuresCaught ==
    EndedAfterJoin =>
        /\ Len(AfterJoin) >= 3
        /\ AfterJoin = SubSeq(ReportSteps, 1, Len(AfterJoin))
        /\ avg_result = Unset => "Error executing query (average spend)" \in logged
        /\ items_result = Unset => "Error executing query (total items)" \in logged
        /\ "duplicates" \in Range(AfterJoin) <=> missing_result # Unset
        /\ "invalid_dates" \in Range(AfterJoin) <=> duplicates # Unset
        /\ pc = "done" <=> invalid_dates # Unset
        /\ pc # "exited"

C9_Witness ==
    /\ pc = "done"
    /\ avg_result = Unset
    /\ items_result = Unset
    /\ AfterJoin = ReportSteps
    /\ Cardinality(logged) = 2

\* C10: when the most-recent-month query or the join query fails, the
\* connection is closed and the run ends there: the failed step is the last
\* one attempted, no later step has produced anything, and the connection is
\* not open.
C10_FatalQueryClosesAndStops ==
    /\ "Error running query" \in logged =>
          /\ pc = "exited" /\ conn = "closed"
          /\ attempted[Len(attempted)] = "recent_month"
          /\ latest_month = Unset /\ result_df = Unset
    /\ "Error executing join query" \in logged =>
          /\ pc = "exited" /\ conn = "closed"
          /\ attempted[Len(attempted)] = "join"
          /\ result_df = Unset
    /\ (pc = "exited" /\ AllFilesPresent) =>
          /\ conn = "closed"
          /\ avg_result = Unset /\ items_result = Unset /\ missing_result = Unset
          /\ duplicates = Unset /\ invalid_dates = Unset

C10_Witness ==
    /\ "Error executing join query" \in logged
    /\ KItems \notin store.receipts.cols
    /\ latest_month # Null
    /\ pc = "exited"

====
